---- MODULE Spec2Model ----
(***************************************************************************)
(* Model of app_lufthansa.py: a Streamlit page that fetches an OAuth       *)
(* token (cached 300 s), the airport directory (cached 86400 s, keyed by   *)
(* the token argument), and, when the refresh button is pressed, the       *)
(* departures of the selected airport, which it reshapes into a table and  *)
(* a route map.                                                            *)
(*                                                                         *)
(* A render pass is one execution of main().  It is cut into actions at    *)
(* the three blocking network calls: each action runs main() from the      *)
(* point it had reached up to the next request or to the end of the pass.  *)
(***************************************************************************)
EXTENDS Integers, Sequences, FiniteSets, TLC

VARIABLES
    now,            \* wall clock, in seconds
    ticks,          \* number of clock advances so far
    tokenCache,     \* st.cache_data entry of get_token()
    airportsCache,  \* st.cache_data entries of get_airports(token), by token
    csv,            \* rows of airports.csv
    pc,             \* where main() is: idle or waiting on a request
    trigger,        \* what started the current pass
    token,          \* main(): token
    selected,       \* session state of the selectbox
    options,        \* options of the selectbox as last rendered
    code,           \* main(): code
    inflight,       \* requests sent and not yet answered
    passReqs,       \* endpoints contacted in the current pass, in order
    shown,          \* elements rendered in the current pass
    status,         \* status of the departures response
    body,           \* body of the departures response
    flights,        \* result of get_flights
    table,          \* rows of the dataframe given to st.dataframe
    routes,         \* show_map(): routes
    passAt,         \* time the current pass started
    lastTokenFetch, \* history: last value get_token fetched and returned
    lastDirFetch    \* history: last directory get_airports fetched and returned

vars == <<now, ticks, tokenCache, airportsCache, csv, pc, trigger, token,
          selected, options, code, inflight, passReqs, shown, status, body,
          flights, table, routes, passAt, lastTokenFetch, lastDirFetch>>

----------------------------------------------------------------------------
(* Bounds *)

MaxTicks == 3
MaxAirports == 2
MaxFlights == 2
MaxCsvRows == 2

(* Program constants *)

TOKEN_TTL == 300
AIRPORTS_TTL == 86400
AUTOREFRESH == 180

(* Clock advances: the auto-refresh interval, a shorter user delay, a day *)
TickSteps == {120, AUTOREFRESH, AIRPORTS_TTL}

----------------------------------------------------------------------------
(* Values *)

None == "<None>"
NaN == "<NaN>"
Tokens == {"T1", "T2"}

\* Python truthiness of the token: None and "" are falsy
TruthyEmptyOk(tok) == tok # None
Truthy(tok) == tok # None /\ tok # ""

----------------------------------------------------------------------------
(* st.cache_data(ttl=...) *)

NoEntry == [has |-> FALSE]

CacheNeverHit(entry, t) == FALSE
CacheHit(entry, t) == entry.has /\ t < entry.expires

CacheStore(value, t, ttl) == [has |-> TRUE, value |-> value, expires |-> t + ttl]

\* @st.cache_data(ttl=300) on get_token: whatever it returns is stored
TokenEntrySkipNone(value, t) ==
    IF value = None THEN NoEntry ELSE CacheStore(value, t, TOKEN_TTL)
TokenEntry(value, t) == CacheStore(value, t, TOKEN_TTL)

\* @st.cache_data(ttl=86400) on get_airports
AirportsEntry(value, t) == CacheStore(value, t, AIRPORTS_TTL)

\* get_airports(token): the cache key is the function and its argument
AirportsKey(tok) == tok

\* the values a cache key of get_airports may take
CacheKeys == Tokens \cup {"", None}

----------------------------------------------------------------------------
(* JSON values *)

JNull == [t |-> "null"]
JList(s) == [t |-> "list", v |-> s]
JObj(f) == [t |-> "obj", v |-> f]
EmptyDict == [k \in {} |-> JNull]

\* a response body that is not JSON: r.json() raises
NotJson == [t |-> "not_json"]

Returned(v) == [raised |-> FALSE, value |-> v]
Raised == [raised |-> TRUE]

----------------------------------------------------------------------------
(* get_token *)

TokenBodies ==
    {NotJson, JObj(EmptyDict)} \cup
    {JObj([access_token |-> v]) : v \in Tokens \cup {""}}

\* r.json().get("access_token")
get_token(resp) ==
    IF resp.t # "obj" THEN Raised
    ELSE IF "access_token" \in DOMAIN resp.v
         THEN Returned(resp.v.access_token)
         ELSE Returned(None)

----------------------------------------------------------------------------
(* get_airports *)

AirportRecs == { [name |-> "Paris CDG", code |-> "CDG"],
                 [name |-> "New York JFK", code |-> "JFK"] }

SeqsUpTo(S, n) == UNION { [1..k -> S] : k \in 0..n }

AirportBodies ==
    {NotJson, JObj(EmptyDict)} \cup
    { JObj([AirportResource |-> JList(s)]) : s \in SeqsUpTo(AirportRecs, MaxAirports) }

\* {a["Names"]["Name"]["$"]: a["AirportCode"] for a in ...}: the last wins
DictOf(s) ==
    [ n \in {s[i].name : i \in DOMAIN s} |->
        s[CHOOSE i \in DOMAIN s : s[i].name = n /\
              \A j \in DOMAIN s : s[j].name = n => j <= i].code ]

get_airports(resp) ==
    IF resp.t # "obj" THEN Raised
    ELSE IF "AirportResource" \notin DOMAIN resp.v THEN Raised
    ELSE Returned(DictOf(resp.v.AirportResource.v))

\* sorted(airports.keys())
NameOrder == <<"New York JFK", "Paris CDG">>
sorted(keys) == SelectSeq(NameOrder, LAMBDA n : n \in keys)

----------------------------------------------------------------------------
(* Flight records.  A record is given by its flattened leaf paths, the    *)
(* keys pd.json_normalize produces; a leaf that the nested record lacks   *)
(* is a key outside its domain.                                           *)

REQUIRED == << "Departure.AirportCode",
               "Departure.ScheduledTimeLocal.DateTime",
               "Arrival.AirportCode",
               "Arrival.ScheduledTimeLocal.DateTime",
               "OperatingCarrier.AirlineID",
               "OperatingCarrier.FlightNumber",
               "FlightStatus.Status.Description" >>

\* df.columns = [...]  (accents dropped)
COLUMNS == << "Depart", "Heure depart", "Arrivee", "Heure arrivee",
              "Compagnie", "Vol", "Statut" >>

Range(s) == { s[i] : i \in DOMAIN s }
FlatKeys == Range(REQUIRED)

FullRecord(dep, arr) ==
    [ k \in FlatKeys |->
        CASE k = "Departure.AirportCode" -> dep
          [] k = "Arrival.AirportCode" -> arr
          [] k = "Departure.ScheduledTimeLocal.DateTime" -> "10:00"
          [] k = "Arrival.ScheduledTimeLocal.DateTime" -> "12:00"
          [] k = "OperatingCarrier.AirlineID" -> "LH"
          [] k = "OperatingCarrier.FlightNumber" -> "400"
          [] OTHER -> "On time" ]

Restrict(f, D) == [ k \in D |-> f[k] ]

\* records with all seven leaves, or with one of them absent
FlightRecs ==
    { Restrict(FullRecord(d[1], d[2]), D) :
        d \in {<<"CDG", "JFK">>, <<"JFK", "CDG">>},
        D \in {FlatKeys} \cup { FlatKeys \ {k} : k \in FlatKeys } }

----------------------------------------------------------------------------
(* get_flights *)

Statuses == {200, 404}

\* what the "Flight" key may hold: null, a list, or one flight object
FlightValues(n) ==
    {JNull} \cup { JList(s) : s \in SeqsUpTo(FlightRecs, n) }
            \cup { JObj(r) : r \in FlightRecs }

FlightsLevel(n) ==
    {JNull, JObj(EmptyDict)} \cup { JObj([Flight |-> z]) : z \in FlightValues(n) }

ResourceLevel(n) ==
    {JNull, JObj(EmptyDict)} \cup { JObj([Flights |-> y]) : y \in FlightsLevel(n) }

Bodies(n) ==
    {NotJson, JNull, JList(<< >>), JObj(EmptyDict)} \cup
    { JObj([FlightStatusResource |-> x]) : x \in ResourceLevel(n) }

\* d.get(k, dflt) on a dict d
DictGet(d, k, dflt) == IF k \in DOMAIN d.v THEN d.v[k] ELSE dflt
\* whether d.get exists: only a dict has it
HasGet(d) == d.t = "obj"

get_flights(st, b) ==
    IF st # 200 THEN Returned(JList(<< >>))
    ELSE IF b = NotJson THEN Raised
    ELSE IF ~HasGet(b) THEN Raised
    ELSE LET x == DictGet(b, "FlightStatusResource", JObj(EmptyDict)) IN
         IF ~HasGet(x) THEN Raised
         ELSE LET y == DictGet(x, "Flights", JObj(EmptyDict)) IN
              IF ~HasGet(y) THEN Raised
              ELSE Returned(DictGet(y, "Flight", JList(<< >>)))

\* Python truthiness of the value get_flights returned
NeverFalsy(fl) == FALSE
Falsy(fl) ==
    \/ fl.t = "null"
    \/ fl.t = "list" /\ fl.v = << >>
    \/ fl.t = "obj" /\ DOMAIN fl.v = {}

----------------------------------------------------------------------------
(* Reshape: main() lines 99-106 *)

\* pd.json_normalize(flights): one row per record, one column per leaf
\* path that some record has, NaN where a record lacks it
RecordsOf(fl) == IF fl.t = "list" THEN fl.v ELSE << fl.v >>

json_normalize_drop(fl) ==
    LET recs == SelectSeq(RecordsOf(fl), LAMBDA r : FlatKeys \subseteq DOMAIN r)
        cols == UNION { DOMAIN recs[i] : i \in DOMAIN recs }
    IN  [ columns |-> cols,
          rows |-> [ i \in DOMAIN recs |-> [ c \in cols |-> recs[i][c] ] ] ]
json_normalize(fl) ==
    LET recs == RecordsOf(fl)
        cols == UNION { DOMAIN recs[i] : i \in DOMAIN recs }
    IN  [ columns |-> cols,
          rows |-> [ i \in DOMAIN recs |->
                       [ c \in cols |-> IF c \in DOMAIN recs[i]
                                        THEN recs[i][c] ELSE NaN ] ] ]

\* df[[...seven columns...]] then df.columns = [...]: KeyError when a
\* column is not in the frame
Reshape(fl) ==
    LET df == json_normalize(fl) IN
    IF ~(FlatKeys \subseteq df.columns) THEN Raised
    ELSE Returned([ i \in DOMAIN df.rows |->
                      [ c \in Range(COLUMNS) |->
                          df.rows[i][REQUIRED[CHOOSE j \in DOMAIN COLUMNS :
                                                  COLUMNS[j] = c]] ] ])

----------------------------------------------------------------------------
(* get_coords and show_map *)

CsvRows == { [IATA |-> "CDG", Longitude |-> 2, Latitude |-> 49],
             [IATA |-> "JFK", Longitude |-> -73, Latitude |-> 40],
             [IATA |-> "CDG", Longitude |-> 3, Latitude |-> 50] }

\* dict(zip(df["IATA"], zip(df["Longitude"], df["Latitude"])))
get_coords(rows) ==
    [ c \in { rows[i].IATA : i \in DOMAIN rows } |->
        LET i == CHOOSE i \in DOMAIN rows : rows[i].IATA = c /\
                     \A j \in DOMAIN rows : rows[j].IATA = c => j <= i
        IN  << rows[i].Longitude, rows[i].Latitude >> ]

\* the dict appended to routes for one row
RouteOfSwapped(row, coords) ==
    [ from_lon |-> coords[row["Depart"]][2],
      from_lat |-> coords[row["Depart"]][1],
      to_lon |-> coords[row["Arrivee"]][2],
      to_lat |-> coords[row["Arrivee"]][1],
      flight |-> << row["Compagnie"], row["Vol"] >> ]
RouteOf(row, coords) ==
    [ from_lon |-> coords[row["Depart"]][1],
      from_lat |-> coords[row["Depart"]][2],
      to_lon |-> coords[row["Arrivee"]][1],
      to_lat |-> coords[row["Arrivee"]][2],
      flight |-> << row["Compagnie"], row["Vol"] >> ]

\* the loop of show_map over df.iterrows()
RECURSIVE BuildRoutes(_, _, _)
BuildRoutes(df, coords, i) ==
    IF i > Len(df) THEN << >>
    ELSE LET row == df[i]
             rest == BuildRoutes(df, coords, i + 1)
         IN  IF row["Depart"] \in DOMAIN coords /\ row["Arrivee"] \in DOMAIN coords
             THEN << RouteOf(row, coords) >> \o rest
             ELSE rest

\* show_map(df): what it renders
MapAlways(rts) == {"map"}
MapOrNotice(rts) == IF rts = << >> THEN {"no_coords"} ELSE {"map"}

----------------------------------------------------------------------------
(* main(): the state of one render pass *)

NotYet == "<not yet>"
NoSel == "<no selection>"
NoBody == [t |-> "none"]
NoResult == [raised |-> FALSE, value |-> NoBody]
NoFetch == [has |-> FALSE]

Cur == [ pc |-> pc, trigger |-> trigger, token |-> token,
         selected |-> selected, options |-> options, code |-> code,
         inflight |-> inflight, passReqs |-> passReqs, shown |-> shown,
         flights |-> flights, table |-> table, routes |-> routes ]

SetPass(p) ==
    /\ pc' = p.pc
    /\ trigger' = p.trigger
    /\ token' = p.token
    /\ selected' = p.selected
    /\ options' = p.options
    /\ code' = p.code
    /\ inflight' = p.inflight
    /\ passReqs' = p.passReqs
    /\ shown' = p.shown
    /\ flights' = p.flights
    /\ table' = p.table
    /\ routes' = p.routes

\* st.button(...) is True only in the pass its click started
ButtonAlways(trig) == TRUE
ButtonPressed(trig) == trig = "button"

\* lines 86-95: the selector, the caption, the button, the departures request
main_select(p, dir) ==
    LET names == sorted(DOMAIN dir) IN
    IF names = << >>
    THEN [p EXCEPT !.pc = "idle", !.options = names,
                   !.shown = @ \cup {"selector", "exception"}]
    ELSE LET name == IF p.selected \in DOMAIN dir THEN p.selected ELSE names[1]
             q == [p EXCEPT !.options = names, !.selected = name,
                            !.code = dir[name],
                            !.shown = @ \cup {"selector", "caption", "button"}]
         IN  IF ButtonPressed(p.trigger)
             THEN [q EXCEPT !.pc = "flights_wait",
                            !.inflight = @ \cup {"departures"},
                            !.passReqs = Append(@, "departures")]
             ELSE [q EXCEPT !.pc = "idle"]

\* line 85: get_airports(token) through its cache
main_airports(p, acache, t) ==
    LET entry == acache[AirportsKey(p.token)] IN
    IF CacheHit(entry, t)
    THEN main_select(p, entry.value)
    ELSE [p EXCEPT !.pc = "airports_wait",
                   !.inflight = @ \cup {"airports"},
                   !.passReqs = Append(@, "airports")]

\* lines 80-85: the token check
main_token(p, tok, acache, t) ==
    LET q == [p EXCEPT !.token = tok] IN
    IF ~Truthy(tok)
    THEN [q EXCEPT !.pc = "idle", !.shown = @ \cup {"oauth_error"}]
    ELSE main_airports(q, acache, t)

\* lines 95-111: the result of get_flights, the reshape, the table, the map
main_render(p, r, rows) ==
    LET q == [p EXCEPT !.pc = "idle", !.flights = r] IN
    IF r.raised THEN [q EXCEPT !.shown = @ \cup {"exception"}]
    ELSE IF Falsy(r.value) THEN [q EXCEPT !.shown = @ \cup {"no_flights"}]
    ELSE LET df == Reshape(r.value) IN
         IF df.raised THEN [q EXCEPT !.shown = @ \cup {"exception"}]
         ELSE LET rts == BuildRoutes(df.value, get_coords(rows), 1) IN
              [q EXCEPT !.table = df.value, !.routes = rts,
                        !.shown = @ \cup {"table", "map_header"}
                                    \cup MapOrNotice(rts) \cup {"download"}]

----------------------------------------------------------------------------
(* Inputs of the render-pass specification *)

Triggers == {"load", "timer", "select", "button"}

PassCsvs == { << [IATA |-> "CDG", Longitude |-> 2, Latitude |-> 49],
                 [IATA |-> "JFK", Longitude |-> -73, Latitude |-> 40] >> }

WithFlight(z) == JObj([FlightStatusResource |-> JObj([Flights |-> JObj([Flight |-> z])])])

PassBodies ==
    { NotJson, JObj(EmptyDict), JObj([FlightStatusResource |-> JNull]),
      WithFlight(JList(<< >>)),
      WithFlight(JList(<< FullRecord("CDG", "JFK") >>)),
      WithFlight(JList(<< FullRecord("CDG", "JFK"),
                          Restrict(FullRecord("JFK", "CDG"),
                                   FlatKeys \ {"FlightStatus.Status.Description"}) >>)),
      WithFlight(JObj(Restrict(FullRecord("CDG", "JFK"),
                               FlatKeys \ {"Arrival.AirportCode"}))) }

----------------------------------------------------------------------------
(* Actions *)

Init ==
    /\ now = 0
    /\ ticks = 0
    /\ tokenCache = NoEntry
    /\ airportsCache = [k \in CacheKeys |-> NoEntry]
    /\ csv \in PassCsvs
    /\ pc = "idle"
    /\ trigger = "none"
    /\ token = NotYet
    /\ selected = NoSel
    /\ options = << >>
    /\ code = None
    /\ inflight = {}
    /\ passReqs = << >>
    /\ shown = {}
    /\ status = 0
    /\ body = NoBody
    /\ flights = NoResult
    /\ table = << >>
    /\ routes = << >>
    /\ passAt = 0
    /\ lastTokenFetch = NoFetch
    /\ lastDirFetch = NoFetch

\* time passes between two passes
Tick ==
    /\ pc = "idle"
    /\ ticks < MaxTicks
    /\ \E d \in TickSteps : now' = now + d
    /\ ticks' = ticks + 1
    /\ UNCHANGED <<tokenCache, airportsCache, csv, pc, trigger, token, selected,
                   options, code, inflight, passReqs, shown, status, body,
                   flights, table, routes, passAt, lastTokenFetch, lastDirFetch>>

\* a script run starts: page load, auto-refresh timer, selector change or
\* button click; main() runs up to its first request
BeginPass ==
    /\ pc = "idle"
    /\ \E trig \in Triggers, choice \in Range(NameOrder) :
        /\ trig = "load" => choice = NameOrder[1]
        /\ trig = "timer" => /\ trigger # "none"
                             /\ now > 0
                             /\ now % AUTOREFRESH = 0
                             /\ choice = NameOrder[1]
        /\ trig = "select" => "selector" \in shown /\ choice \in Range(options)
        /\ trig = "button" => "button" \in shown /\ choice = NameOrder[1]
        /\ LET p == [Cur EXCEPT !.trigger = trig,
                                !.token = NotYet,
                                !.selected = CASE trig = "load" -> NoSel
                                               [] trig = "select" -> choice
                                               [] OTHER -> @,
                                !.code = None,
                                !.passReqs = << >>,
                                !.shown = {"title"},
                                !.flights = NoResult,
                                !.table = << >>,
                                !.routes = << >>]
           IN  IF CacheHit(tokenCache, now)
               THEN SetPass(main_token(p, tokenCache.value, airportsCache, now))
               ELSE SetPass([p EXCEPT !.pc = "token_wait",
                                      !.inflight = @ \cup {"token"},
                                      !.passReqs = Append(@, "token")])
    /\ passAt' = now
    /\ status' = 0
    /\ body' = NoBody
    /\ UNCHANGED <<now, ticks, tokenCache, airportsCache, csv,
                   lastTokenFetch, lastDirFetch>>

\* the token endpoint answers: get_token returns, its result is cached
TokenResponse ==
    /\ pc = "token_wait"
    /\ \E resp \in TokenBodies :
        LET r == get_token(resp)
            p == [Cur EXCEPT !.inflight = @ \ {"token"}]
        IN  IF r.raised
            THEN /\ SetPass([p EXCEPT !.pc = "idle",
                                      !.shown = @ \cup {"exception"}])
                 /\ UNCHANGED <<tokenCache, lastTokenFetch>>
            ELSE /\ tokenCache' = TokenEntry(r.value, now)
                 /\ lastTokenFetch' = [has |-> TRUE, at |-> now, value |-> r.value]
                 /\ SetPass(main_token(p, r.value, airportsCache, now))
    /\ UNCHANGED <<now, ticks, airportsCache, csv, status, body, passAt,
                   lastDirFetch>>

\* the airport reference endpoint answers
AirportsResponse ==
    /\ pc = "airports_wait"
    /\ \E resp \in AirportBodies :
        LET r == get_airports(resp)
            p == [Cur EXCEPT !.inflight = @ \ {"airports"}]
        IN  IF r.raised
            THEN /\ SetPass([p EXCEPT !.pc = "idle",
                                      !.shown = @ \cup {"exception"}])
                 /\ UNCHANGED <<airportsCache, lastDirFetch>>
            ELSE /\ airportsCache' =
                        [airportsCache EXCEPT ![AirportsKey(token)] =
                            AirportsEntry(r.value, now)]
                 /\ lastDirFetch' = [has |-> TRUE, at |-> now, value |-> r.value]
                 /\ SetPass(main_select(p, r.value))
    /\ UNCHANGED <<now, ticks, tokenCache, csv, status, body, passAt,
                   lastTokenFetch>>

\* the departures endpoint answers with status st and body b
Deliver(st, b) ==
    /\ pc = "flights_wait"
    /\ status' = st
    /\ body' = b
    /\ SetPass(main_render([Cur EXCEPT !.inflight = @ \ {"departures"}],
                           get_flights(st, b), csv))
    /\ UNCHANGED <<now, ticks, tokenCache, airportsCache, csv, passAt,
                   lastTokenFetch, lastDirFetch>>

FlightsResponse == \E st \in Statuses, b \in PassBodies : Deliver(st, b)

Next == Tick \/ BeginPass \/ TokenResponse \/ AirportsResponse \/ FlightsResponse

Spec == Init /\ [][Next]_vars

----------------------------------------------------------------------------
(* The departures response alone: every status, body and coordinate file   *)
(* within the bounds, delivered to a pass that waits for it.               *)

ParisOnly == DictOf(<< [name |-> "Paris CDG", code |-> "CDG"] >>)

InitRender ==
    /\ now = 0
    /\ ticks = 0
    /\ tokenCache = TokenEntry("T1", 0)
    /\ airportsCache = [k \in CacheKeys |-> IF k = "T1"
                                         THEN AirportsEntry(ParisOnly, 0)
                                         ELSE NoEntry]
    /\ csv \in SeqsUpTo(CsvRows, MaxCsvRows)
    /\ pc = "flights_wait"
    /\ trigger = "button"
    /\ token = "T1"
    /\ selected = "Paris CDG"
    /\ options = << "Paris CDG" >>
    /\ code = "CDG"
    /\ inflight = {"departures"}
    /\ passReqs = << "departures" >>
    /\ shown = {"title", "selector", "caption", "button"}
    /\ status \in Statuses
    /\ body \in Bodies(MaxFlights)
    /\ flights = NoResult
    /\ table = << >>
    /\ routes = << >>
    /\ passAt = 0
    /\ lastTokenFetch = [has |-> TRUE, at |-> 0, value |-> "T1"]
    /\ lastDirFetch = [has |-> TRUE, at |-> 0, value |-> ParisOnly]

RenderResponse == Deliver(status, body)

NextRender == RenderResponse

SpecRender == InitRender /\ [][NextRender]_vars

----------------------------------------------------------------------------
(* Properties *)

Count(s, x) == Cardinality({ i \in DOMAIN s : s[i] = x })
Rendering == {"table", "map_header", "map", "no_coords", "download"}

\* C1: get_airports sends at most one request to the airport reference
\* endpoint per 24-hour window, whatever token it is called with: no
\* request is in flight while a directory fetched less than 86400 s ago
\* exists.
C1_OneDirectoryRequestPerDay ==
    pc = "airports_wait" =>
        ~(lastDirFetch.has /\ now - lastDirFetch.at < AIRPORTS_TTL)

\* C2: once get_token has fetched and cached a token, every call made less
\* than 300 s after that fetch returns that value and sends no request to
\* the token endpoint.
C2_TokenCachedWithinTTL ==
    ( /\ lastTokenFetch.has
      /\ lastTokenFetch.value \in Tokens
      /\ now - lastTokenFetch.at < TOKEN_TTL )
    => /\ pc # "token_wait"
       /\ "token" \notin inflight
       /\ token # NotYet => token = lastTokenFetch.value
       /\ passAt > lastTokenFetch.at => "token" \notin Range(passReqs)

C2_Witness ==
    /\ lastTokenFetch.has
    /\ lastTokenFetch.value \in Tokens
    /\ passAt > lastTokenFetch.at
    /\ passAt - lastTokenFetch.at < TOKEN_TTL
    /\ pc = "idle"
    /\ token = lastTokenFetch.value
    /\ "token" \notin Range(passReqs)

\* C3: in a pass where get_token yields None or "", main shows the OAuth
\* error and ends the pass: no request to the airport reference endpoint
\* or to the departures endpoint, no selector, table, map or export.
C3_NoTokenEndsPass ==
    token \in {None, ""} =>
        /\ pc = "idle"
        /\ shown = {"title", "oauth_error"}
        /\ "airports" \notin Range(passReqs)
        /\ "departures" \notin Range(passReqs)
        /\ inflight = {}

C3_Witness ==
    /\ token = ""
    /\ "oauth_error" \in shown
    /\ passReqs = << "token" >>

\* C4: get_flights never raises and returns [] for every status other
\* than 200 and for every status-200 JSON body in which the path
\* FlightStatusResource / Flights / Flight does not resolve; it returns a
\* non-empty list only for status 200 with that list at the end of the path.
PathResolves(b) ==
    /\ b.t = "obj"
    /\ "FlightStatusResource" \in DOMAIN b.v
    /\ b.v.FlightStatusResource.t = "obj"
    /\ "Flights" \in DOMAIN b.v.FlightStatusResource.v
    /\ b.v.FlightStatusResource.v.Flights.t = "obj"
    /\ "Flight" \in DOMAIN b.v.FlightStatusResource.v.Flights.v

C4_GetFlightsNeverRaises ==
    (pc = "idle" /\ body # NotJson) =>
        /\ status # 200 => flights = Returned(JList(<< >>))
        /\ (status = 200 /\ ~PathResolves(body)) => flights = Returned(JList(<< >>))
        /\ (~flights.raised /\ flights.value.t = "list" /\ flights.value.v # << >>)
            => /\ status = 200
               /\ PathResolves(body)
               /\ body.v.FlightStatusResource.v.Flights.v.Flight = flights.value

\* C5: in a pass where the button was pressed and get_flights returned an
\* empty list, main shows the "no flights" notice and ends the pass: no
\* table, no map, no "no coordinates" notice, no export.
C5_EmptyListEndsPass ==
    ( /\ pc = "idle"
      /\ trigger = "button"
      /\ "departures" \in Range(passReqs)
      /\ flights = Returned(JList(<< >>)) )
    => /\ "no_flights" \in shown
       /\ shown \cap (Rendering \cup {"exception"}) = {}
       /\ table = << >>

C5_Witness ==
    /\ pc = "idle"
    /\ trigger = "button"
    /\ status = 200
    /\ flights = Returned(JList(<< >>))
    /\ "no_flights" \in shown

\* C6: show_map builds exactly one route segment for each row whose
\* departure and arrival codes are both keys of the coordinate table and
\* none for any other row; a segment's endpoints are the table's (lon, lat)
\* entries of the row's codes, and the segments keep the rows' order.
Resolvable(i) ==
    /\ table[i]["Depart"] \in DOMAIN get_coords(csv)
    /\ table[i]["Arrivee"] \in DOMAIN get_coords(csv)

C6_RoutesMatchRows ==
    "table" \in shown =>
        /\ Len(routes) = Cardinality({ i \in DOMAIN table : Resolvable(i) })
        /\ \A i \in DOMAIN table : Resolvable(i) =>
            LET k == Cardinality({ j \in 1..i : Resolvable(j) })
                from == get_coords(csv)[table[i]["Depart"]]
                to == get_coords(csv)[table[i]["Arrivee"]]
            IN  /\ routes[k].from_lon = from[1]
                /\ routes[k].from_lat = from[2]
                /\ routes[k].to_lon = to[1]
                /\ routes[k].to_lat = to[2]
                /\ routes[k].flight = << table[i]["Compagnie"], table[i]["Vol"] >>

C6_Witness ==
    /\ "map" \in shown
    /\ Len(table) = 2
    /\ Len(routes) = 1
    /\ ~Resolvable(1)
    /\ Resolvable(2)

\* C7: when a non-empty flight list was fetched and reshaped, the table is
\* rendered with every fetched row; the map is rendered iff a route
\* segment was built, and otherwise the "no coordinates" notice is shown
\* (never both, never neither).
C7_TableAlwaysMapIfRoutes ==
    ( /\ pc = "idle"
      /\ "departures" \in Range(passReqs)
      /\ ~flights.raised
      /\ flights.value.t = "list"
      /\ flights.value.v # << >>
      /\ "exception" \notin shown )
    => /\ "table" \in shown
       /\ Len(table) = Len(flights.value.v)
       /\ "map" \in shown <=> routes # << >>
       /\ "no_coords" \in shown <=> routes = << >>
       /\ "no_flights" \notin shown

C7_Witness ==
    /\ "table" \in shown
    /\ "no_coords" \in shown
    /\ "map" \notin shown
    /\ Len(table) = 2
    /\ table[1]["Arrivee"] \notin DOMAIN get_coords(csv)

\* C8 (as stated): when a fetched flight list contains a record that lacks
\* one of the seven required fields, the reshape does not succeed and no
\* table is displayed, also when other records carry that field.
LacksField(r) == \E k \in FlatKeys : k \notin DOMAIN r

C8_MissingFieldFailsReshape ==
    ( /\ pc = "idle"
      /\ ~flights.raised
      /\ flights.value.t = "list"
      /\ \E i \in DOMAIN flights.value.v : LacksField(flights.value.v[i]) )
    => "table" \notin shown

\* C8 (amended): when every record of a fetched non-empty flight list lacks
\* the same required field, the reshape fails and no table, map or export
\* is rendered; when each of the seven fields is carried by at least one
\* record, the reshape succeeds and a record that lacks a field is
\* displayed as a row with NaN in that column.
C8_MissingFieldAmended ==
    ( /\ pc = "idle"
      /\ ~flights.raised
      /\ flights.value.t = "list"
      /\ flights.value.v # << >> )
    => LET recs == flights.value.v IN
       IF \E k \in FlatKeys : \A i \in DOMAIN recs : k \notin DOMAIN recs[i]
       THEN /\ "exception" \in shown
            /\ shown \cap Rendering = {}
            /\ table = << >>
       ELSE /\ "table" \in shown
            /\ Len(table) = Len(recs)
            /\ \A i \in DOMAIN recs : \A j \in DOMAIN COLUMNS :
                 table[i][COLUMNS[j]] =
                    IF REQUIRED[j] \in DOMAIN recs[i]
                    THEN recs[i][REQUIRED[j]] ELSE NaN

C8_Witness ==
    /\ "table" \in shown
    /\ Len(table) = 2
    /\ table[2]["Statut"] = NaN
    /\ table[1]["Statut"] # NaN

\* C9: the departures endpoint is contacted only in a pass started by the
\* button, at most once per pass, after a non-empty token and the
\* directory were obtained in that pass; its response is received before
\* the table, map or export is rendered; no two requests are in flight at
\* once.
C9_DeparturesOnlyOnButton ==
    /\ Cardinality(inflight) <= 1
    /\ "departures" \in Range(passReqs) =>
          /\ trigger = "button"
          /\ Count(passReqs, "departures") = 1
          /\ token \in Tokens
          /\ code # None
          /\ options # << >>
    /\ pc = "flights_wait" <=> "departures" \in inflight
    /\ "departures" \in inflight => shown \cap Rendering = {}
    /\ shown \cap Rendering # {} => "departures" \in Range(passReqs)

C9_Witness ==
    /\ pc = "idle"
    /\ trigger = "button"
    /\ passReqs = << "token", "airports", "departures" >>
    /\ "table" \in shown
    /\ "map" \in shown

\* C10: a failed token fetch is cached like a successful one: after
\* get_token fetched a response without access_token, every pass less than
\* 300 s later gets None from the cache, shows the OAuth error and sends no
\* request to the token endpoint.
C10_FailedTokenCached ==
    ( /\ lastTokenFetch.has
      /\ lastTokenFetch.value = None
      /\ now - lastTokenFetch.at < TOKEN_TTL )
    => /\ pc = "idle"
       /\ inflight = {}
       /\ token = None
       /\ "oauth_error" \in shown
       /\ passAt > lastTokenFetch.at => passReqs = << >>

C10_Witness ==
    /\ lastTokenFetch.has
    /\ lastTokenFetch.value = None
    /\ passAt > lastTokenFetch.at
    /\ passAt - lastTokenFetch.at < TOKEN_TTL
    /\ token = None
    /\ "oauth_error" \in shown
    /\ passReqs = << >>

====
